---- MODULE Spec2Model ----
(***************************************************************************)
(* Model of the retrieval core of RAG_Native:                              *)
(*   - TextChunker (src/src/ingestion/chunking.py)                        *)
(*   - BM25Retriever (src/src/retrieval/bm25_retriever.py)                *)
(*   - HybridRetriever (src/src/retrieval/hybrid_retriever.py)            *)
(*   - the vector store and the search and delete routes                   *)
(*     (src/src/storage, src/src/api/routes)                               *)
(*   - the upload route (src/src/api/routes/documents.py)                  *)
(*   - ConversationStorage (src/src/storage/conversation_storage.py)       *)
(*   - sync_zilliz_from_supabase (src/src/storage/zilliz_sync.py)          *)
(* Each component has its own specification (SpecChunker, SpecBM25,       *)
(* SpecHybrid, SpecApi, SpecUpload, SpecConv, SpecSync); the variables of  *)
(* the other components stay at their initial values.                      *)
(***************************************************************************)
EXTENDS Integers, Sequences, FiniteSets, TLC

VARIABLES
    \* ---- TextChunker ----
    chunk_size,      \* self.chunk_size
    chunk_overlap,   \* self.chunk_overlap
    pages,           \* chunk_documents' argument: the token sequence of each page
    page_idx,        \* position of chunk_documents' loop over pages (1-based)
    all_chunks,      \* chunk_documents' all_chunks
    tokens,          \* chunk_text: tokens = self.encoding.encode(text)
    start_idx,       \* chunk_text: start_idx (0-based, as in the source)
    chunk_num,       \* chunk_text: chunk_num
    chunks,          \* chunk_text: chunks
    cpc,             \* position of the chunker: "pages", "loop", "done"
    md_heap,         \* the dict objects holding metadata, by object number
    md_input,        \* for each page chunked, the object passed as metadata
    md_refs,         \* for each chunk built, the object its .metadata is
    md_changed,      \* the chunk whose metadata the caller changed, 0 if none
    \* ---- BM25Retriever ----
    corpus,          \* self.corpus: the texts, in insertion order
    bm_metadata,     \* self.metadata: the metadata, parallel to corpus
    bm25,            \* self.bm25: NoIndex (None), or the index built by BM25Okapi
    bm_scores,       \* retrieve: scores = self.bm25.get_scores(...)
    bm_top_k,        \* retrieve: the top_k argument of the call
    results,         \* retrieve: the list returned
    bpc,             \* "idle", "returned" (retrieve returned), "raised"
    bm_oracle,       \* what self.bm25.get_scores gives for the query; <<>>
                     \* while this index was not asked yet
    bm_seen,         \* what the caller got from the previous retrieve on
                     \* this corpus: [k, pc, out]
    \* ---- HybridRetriever ----
    vector_weight,   \* self.vector_weight, in tenths
    bm25_weight,     \* self.bm25_weight, in tenths
    top_k,           \* retrieve: the top_k argument
    vector_k,        \* the top_k the vector retriever was called with, 0 before
    bm25_k,          \* the top_k the BM25 retriever was called with, 0 before
    vector_results,  \* retrieve: what the vector retriever returned
    bm25_results,    \* retrieve: what the BM25 retriever returned
    fused_results,   \* retrieve: what _reciprocal_rank_fusion returned
    final_results,   \* retrieve: the list returned
    hpc,             \* "start", "vector", "bm25", "fused", "done"
    \* ---- the vector store and the routes that use it ----
    backend,         \* the store wrapper behind the routes: "chroma", "zilliz"
    store,           \* the chunks of the collection, in insertion order
    ingested,        \* for each document_id, the chunks add_documents stored
    deleted,         \* the document_ids whose delete request has returned
    running,         \* the handler the event loop is running, or "none"
    a_pc,            \* add_documents: "idle", "returned", "rejected"
    a_ext_calls,     \* add_documents: calls it made to the external store
    d_pc,            \* delete: "idle", "start", "delete", "return", "responded"
    d_doc,           \* delete: the document_id argument
    d_ids,           \* delete_document: results["ids"]
    d_count,         \* delete_document: the number it returns
    d_status,        \* delete: HTTP status of the last response, 0 before
    s_pc,            \* search: "idle", "init", "steps", "failed", "responded"
    s_type,          \* search: request.search_type
    s_top_k,         \* search: request.top_k
    s_corpus,        \* _initialize_retrievers: all_results, as documents
    s_index,         \* the documents the request's BM25Retriever indexed
    s_todo,          \* search: the steps still to run, in order
    s_done,          \* search: the steps run so far, in order
    s_fail,          \* search: the upstream call that failed, or "none"
    s_vector,        \* search: what the vector retriever returned
    s_bm25,          \* search: what the BM25 retriever returned
    s_results,       \* search: the results of the response
    s_status,        \* search: HTTP status of the last response, 0 before
    \* ---- the upload route ----
    u_pc,            \* upload: "idle", "validate", "save", "load", "chunk",
                     \* "embed", "add", "responded"
    u_suffix,        \* upload: Path(file.filename).suffix
    u_files,         \* the suffixes of the files written to documents_dir
    u_calls,         \* upload: the loader, chunker, embedder and store calls
                     \* made for the request, in order
    u_status,        \* upload: HTTP status of the last response, 0 before
    \* ---- ConversationStorage ----
    foreign_keys,    \* whether the SQLite connections enforce foreign keys
    conversations,   \* the ids in table conversations
    conv_ever,       \* the conversation ids uuid4 has handed out so far
    messages,        \* the rows of table messages, in insertion order
    msg_ever,        \* the number of message ids uuid4 has handed out so far
    now,             \* the latest datetime.utcnow() a row was stamped with
    recent_args,     \* get_recent_messages: its arguments, [cid, limit]
    recent,          \* get_recent_messages: the list it returned
    vpc,             \* "idle", "returned" (get_recent_messages returned)
    \* ---- sync_zilliz_from_supabase ----
    pk_mode,         \* what the collection does with an insert of a primary
                     \* id it already holds: "duplicate", "replace", "reject"
    supabase,        \* the documents table: for each id, chunk_count and
                     \* whether file_path is set
    z_store,         \* the entities of the Zilliz collection
    sync_documents,  \* sync: documents, the documents of the run
    doc_idx,         \* sync: position of the loop over documents (1-based)
    synced,          \* sync: synced
    failed,          \* sync: failed
    skipped,         \* sync: skipped
    synced_docs,     \* the documents counted as synced in the run, each with
                     \* the number of chunks produced for it
    ypc              \* "idle", "loop"

metadataVars == <<md_heap, md_input, md_refs, md_changed>>

chunkerVars == <<chunk_size, chunk_overlap, pages, page_idx, all_chunks,
                 tokens, start_idx, chunk_num, chunks, cpc, metadataVars>>

bm25Vars == <<corpus, bm_metadata, bm25, bm_scores, bm_top_k, results, bpc,
              bm_oracle, bm_seen>>

hybridVars == <<vector_weight, bm25_weight, top_k, vector_k, bm25_k,
                vector_results, bm25_results, fused_results, final_results,
                hpc>>

storeVars == <<backend, store, ingested, deleted, running>>

addVars == <<a_pc, a_ext_calls>>

deleteVars == <<d_pc, d_doc, d_ids, d_count, d_status>>

searchVars == <<s_pc, s_type, s_top_k, s_corpus, s_index, s_todo, s_done,
                s_fail, s_vector, s_bm25, s_results, s_status>>

apiVars == <<storeVars, addVars, deleteVars, searchVars>>

uploadVars == <<u_pc, u_suffix, u_files, u_calls, u_status>>

convVars == <<foreign_keys, conversations, conv_ever, messages, msg_ever, now,
              recent_args, recent, vpc>>

syncVars == <<pk_mode, supabase, z_store, sync_documents, doc_idx, synced,
              failed, skipped, synced_docs, ypc>>

moreVars == <<uploadVars, convVars, syncVars>>

\* The retrieval core and the routes on the vector store.
coreVars == <<chunkerVars, bm25Vars, hybridVars, apiVars>>

vars == <<chunkerVars, bm25Vars, hybridVars, apiVars, moreVars>>

-----------------------------------------------------------------------------
(* Bounds of the model *)

MaxTokens == 3      \* longest page, in tokens
MaxPages  == 2      \* most pages of one document
MaxSize   == 3      \* largest chunk_size / chunk_overlap tried

\* chunk_size and chunk_overlap are plain ints in the source: nothing keeps
\* them positive, so the model also tries 0 and a negative value.
Sizes    == -1..MaxSize
Overlaps == -1..MaxSize

\* The while loop of chunk_text is unbounded when the stride is <= 0; the
\* model stops following it after ChunkCap chunks.  A valid configuration
\* emits at most MaxTokens chunks per page, so the cap never cuts it short.
ChunkCap == MaxTokens + 2

FileName == "doc.pdf"

MaxDocs  == 3       \* most documents handed to index_documents
MaxTopK  == 3       \* largest top_k of a request (the API allows 1..20)
MaxRank  == 3       \* most results one retriever returns to the fusion

\* The texts of chunks and results.
Texts == {"t1", "t2", "t3"}

\* The texts of the chunks that are stored and indexed.
ChunkTexts == {"t1", "t2"}

\* The values bm25.get_scores may give one document.
ScoreValues == {-1, 0, 1, 2}

\* (vector_weight, bm25_weight) of settings.retrieval, in tenths.
Weights == {<<7, 3>>, <<3, 7>>, <<5, 5>>}

\* The top_k values of the hybrid requests: the small ones, the first one at
\* which top_k * 3 passes 20, and the largest the API allows.
TopKs == (1..MaxTopK) \cup {7, 20}

\* k: int = 60, the RRF parameter.
K == 60

\* The document_ids add_documents hands out (uuid4 strings in the source).
DocIds == {"d1", "d2"}

\* The two store wrappers of the repository.
Backends == {"chroma", "zilliz"}

\* search_type: Literal["vector", "bm25", "hybrid"]
SearchTypes == {"vector", "bm25", "hybrid"}

\* The rankings the external similarity search and BM25 scores are tried
\* with: the chunks in insertion order, or in the opposite order.
Orders == {"forward", "backward"}

-----------------------------------------------------------------------------
(* Python helpers *)

Min(a, b) == IF a < b THEN a ELSE b

\* Python's normalisation of one slice bound against a sequence of length n.
PyClamp(i, n) ==
    IF i < 0 THEN (IF i + n < 0 THEN 0 ELSE i + n)
    ELSE IF i > n THEN n ELSE i

\* s[lo:hi] of Python for a 0-based half-open range.
PySlice(s, lo, hi) ==
    LET a == PyClamp(lo, Len(s))
        b == PyClamp(hi, Len(s))
    IN  IF a < b THEN SubSeq(s, a + 1, b) ELSE <<>>

\* s[:n] of Python for n >= 0.
PyTake(s, n) == PySlice(s, 0, n)

\* All sequences over S of length at most n.
SeqsUpTo(S, n) == UNION {[1..m -> S] : m \in 0..n}

\* sorted(range(len(keys)), key=lambda i: keys[i], reverse=True): the indices
\* of keys (1-based here) by descending key.  Python's sort is stable, also
\* with reverse=True: indices of equal key stay in ascending order.
RECURSIVE InsertDesc(_, _, _, _)
InsertDesc(perm, i, keys, p) ==
    IF p > Len(perm) THEN Append(perm, i)
    ELSE IF keys[perm[p]] < keys[i]
         THEN SubSeq(perm, 1, p - 1) \o <<i>> \o SubSeq(perm, p, Len(perm))
         ELSE InsertDesc(perm, i, keys, p + 1)

RECURSIVE SortDescUpTo(_, _)
SortDescUpTo(keys, n) ==
    IF n = 0 THEN <<>>
    ELSE InsertDesc(SortDescUpTo(keys, n - 1), n, keys, 1)

PySortedDesc(keys) == SortDescUpTo(keys, Len(keys))

\* The same order with the indices of equal key reversed, as
\* sorted(...)[::-1] would give.
RECURSIVE InsertDescTiesFirst(_, _, _, _)
InsertDescTiesFirst(perm, i, keys, p) ==
    IF p > Len(perm) THEN Append(perm, i)
    ELSE IF keys[perm[p]] <= keys[i]
         THEN SubSeq(perm, 1, p - 1) \o <<i>> \o SubSeq(perm, p, Len(perm))
         ELSE InsertDescTiesFirst(perm, i, keys, p + 1)

RECURSIVE SortDescTiesReversedUpTo(_, _)
SortDescTiesReversedUpTo(keys, n) ==
    IF n = 0 THEN <<>>
    ELSE InsertDescTiesFirst(SortDescTiesReversedUpTo(keys, n - 1), n, keys, 1)

-----------------------------------------------------------------------------
(* TextChunker *)

\* encode(page.content): the tokenizer is tiktoken (external); chunk_text never
\* looks at a token's value, so the tokens of page p are taken to be the
\* distinct values <<p, 1>>, <<p, 2>>, ... and a page is given by its length.
PageTokens(p, len) == [i \in 1..len |-> <<p, i>>]

\* page_metadata = page.metadata.to_dict(); page_metadata["page_number"] = ...
PageMetadata(p) == [filename |-> FileName, page_number |-> p]

\* chunk_id = f"{metadata.get('filename', 'unknown')}_{chunk_num}"
ChunkId(metadata, num) == <<metadata.filename, num>>

\* start_idx += self.chunk_size: the windows laid end to end, the overlap
\* left out.
StrideIgnoresOverlap == chunk_size

\* The stride of the window.
Stride == chunk_size - chunk_overlap

\* One Chunk(...) as built in the loop body.  text is decode(chunk_tokens),
\* kept as the token window itself.
MakeChunk(toks, start, num, metadata) ==
    LET end_idx      == start + chunk_size
        chunk_tokens == PySlice(toks, start, end_idx)
    IN  [text        |-> chunk_tokens,
         chunk_id    |-> ChunkId(metadata, num),
         metadata    |-> metadata,
         token_count |-> Len(chunk_tokens)]

\* metadata=metadata handed to Chunk(...) as it is: every chunk of the call
\* holds the caller's dict object.
MetadataShared(heap, src) == [heap |-> heap, ref |-> src]

\* metadata=metadata.copy(): a new dict object with the items of the input
\* mapping (the values are scalars, so the copy shares nothing with it).
MetadataCopy(heap, src) ==
    [heap |-> Append(heap, heap[src]), ref |-> Len(heap) + 1]

\* The filename a caller writes into the metadata of a chunk it was handed.
OtherFileName == "other.pdf"

\* A loop that stops as soon as no full window is left.
LoopCondFullWindowOnly == start_idx + chunk_size <= Len(tokens)

\* while start_idx < len(tokens)
LoopCond == start_idx < Len(tokens)

\* self.bm25 = None: no index.
NoIndex == [built |-> FALSE, docs |-> <<>>]

\* No retrieve was made on this corpus yet.
NotSeen == [k |-> 0, pc |-> "idle", out |-> <<>>]

\* BM25Retriever.__init__
BM25New ==
    /\ corpus = <<>>
    /\ bm_metadata = <<>>
    /\ bm25 = NoIndex
    /\ bm_scores = <<>>
    /\ bm_top_k = 0
    /\ results = <<>>
    /\ bpc = "idle"
    /\ bm_oracle = <<>>
    /\ bm_seen = NotSeen

\* The hybrid retriever with its default weights, before any call.
HybridIdle ==
    /\ vector_weight = 7
    /\ bm25_weight = 3
    /\ top_k = 0
    /\ vector_k = 0
    /\ bm25_k = 0
    /\ vector_results = <<>>
    /\ bm25_results = <<>>
    /\ fused_results = <<>>
    /\ final_results = <<>>
    /\ hpc = "start"

\* No request is being served: the handlers' locals are empty.
HandlersIdle ==
    /\ running = "none"
    /\ a_pc = "idle"
    /\ a_ext_calls = 0
    /\ d_pc = "idle"
    /\ d_doc = "none"
    /\ d_ids = {}
    /\ d_count = 0
    /\ d_status = 0
    /\ s_pc = "idle"
    /\ s_type = "none"
    /\ s_top_k = 0
    /\ s_corpus = <<>>
    /\ s_index = <<>>
    /\ s_todo = <<>>
    /\ s_done = <<>>
    /\ s_fail = "none"
    /\ s_vector = <<>>
    /\ s_bm25 = <<>>
    /\ s_results = <<>>
    /\ s_status = 0

\* An empty local store and no request, for the specifications of other
\* components.
ApiIdle ==
    /\ backend = "chroma"
    /\ store = <<>>
    /\ ingested = [d \in DocIds |-> 0]
    /\ deleted = {}
    /\ HandlersIdle

\* The upload route before any request.
UploadIdle ==
    /\ u_pc = "idle"
    /\ u_suffix = ""
    /\ u_files = {}
    /\ u_calls = <<>>
    /\ u_status = 0

\* No get_recent_messages call was made yet.
NoRecentCall == [cid |-> "", limit |-> 0]

\* ConversationStorage after _init_db on a new database file, with foreign
\* keys off as in a default SQLite build.
ConvIdle ==
    /\ foreign_keys = FALSE
    /\ conversations = {}
    /\ conv_ever = {}
    /\ messages = <<>>
    /\ msg_ever = 0
    /\ now = 0
    /\ recent_args = NoRecentCall
    /\ recent = <<>>
    /\ vpc = "idle"

\* No sync was run; the collection is empty and Supabase lists no chunks.
SyncIdle ==
    /\ pk_mode = "duplicate"
    /\ supabase = [d \in DocIds |-> [chunk_count |-> 0, file_path |-> TRUE]]
    /\ z_store = <<>>
    /\ sync_documents = <<>>
    /\ doc_idx = 1
    /\ synced = 0
    /\ failed = 0
    /\ skipped = 0
    /\ synced_docs = <<>>
    /\ ypc = "idle"

\* The remaining components before any call.
MoreIdle == UploadIdle /\ ConvIdle /\ SyncIdle

\* The chunker before any call, for the specifications of other components.
ChunkerIdle ==
    /\ chunk_size = 1
    /\ chunk_overlap = 0
    /\ pages = <<>>
    /\ page_idx = 1
    /\ all_chunks = <<>>
    /\ tokens = <<>>
    /\ start_idx = 0
    /\ chunk_num = 0
    /\ chunks = <<>>
    /\ cpc = "pages"
    /\ md_heap = <<>>
    /\ md_input = <<>>
    /\ md_refs = <<>>
    /\ md_changed = 0

ChunkerInit ==
    /\ chunk_size \in Sizes
    /\ chunk_overlap \in Overlaps
    /\ \E n \in 0..MaxPages :
          \E lens \in [1..n -> 0..MaxTokens] :
             pages = [p \in 1..n |-> PageTokens(p, lens[p])]
    /\ page_idx = 1
    /\ all_chunks = <<>>
    /\ tokens = <<>>
    /\ start_idx = 0
    /\ chunk_num = 0
    /\ chunks = <<>>
    /\ cpc = "pages"
    /\ md_heap = <<>>
    /\ md_input = <<>>
    /\ md_refs = <<>>
    /\ md_changed = 0
    /\ BM25New
    /\ HybridIdle
    /\ ApiIdle
    /\ MoreIdle

\* chunk_documents: for page in pages: ... self.chunk_text(page.content, ...)
\* up to the first test of the while condition.
ChunkTextCall ==
    /\ cpc = "pages"
    /\ page_idx <= Len(pages)
    /\ tokens' = pages[page_idx]
    /\ chunks' = <<>>
    /\ start_idx' = 0
    /\ chunk_num' = 0
    /\ cpc' = "loop"
    /\ md_heap' = Append(md_heap, PageMetadata(page_idx))
    /\ md_input' = Append(md_input, Len(md_heap) + 1)
    /\ UNCHANGED <<chunk_size, chunk_overlap, pages, page_idx, all_chunks,
                   md_refs, md_changed>>
    /\ UNCHANGED <<bm25Vars, hybridVars, apiVars, moreVars>>

\* One iteration of the while loop of chunk_text.
ChunkLoopBody ==
    /\ cpc = "loop"
    /\ LoopCond
    /\ Len(chunks) < ChunkCap
    /\ chunks' = Append(chunks,
                        MakeChunk(tokens, start_idx, chunk_num,
                                  md_heap[md_input[page_idx]]))
    /\ LET copy == MetadataCopy(md_heap, md_input[page_idx]) IN
          /\ md_heap' = copy.heap
          /\ md_refs' = Append(md_refs, copy.ref)
    /\ start_idx' = start_idx + Stride
    /\ chunk_num' = chunk_num + 1
    /\ UNCHANGED <<chunk_size, chunk_overlap, pages, page_idx, all_chunks,
                   tokens, cpc, md_input, md_changed>>
    /\ UNCHANGED <<bm25Vars, hybridVars, apiVars, moreVars>>

\* return chunks; all_chunks.extend(chunks); next page.
ChunkTextReturn ==
    /\ cpc = "loop"
    /\ ~LoopCond
    /\ all_chunks' = all_chunks \o chunks
    /\ page_idx' = page_idx + 1
    /\ cpc' = "pages"
    /\ UNCHANGED <<chunk_size, chunk_overlap, pages, tokens, start_idx,
                   chunk_num, chunks, metadataVars>>
    /\ UNCHANGED <<bm25Vars, hybridVars, apiVars, moreVars>>

\* chunk_documents: return all_chunks.
ChunkDocumentsReturn ==
    /\ cpc = "pages"
    /\ page_idx > Len(pages)
    /\ cpc' = "done"
    /\ UNCHANGED <<chunk_size, chunk_overlap, pages, page_idx, all_chunks,
                   tokens, start_idx, chunk_num, chunks, metadataVars>>
    /\ UNCHANGED <<bm25Vars, hybridVars, apiVars, moreVars>>

\* The caller of chunk_documents writes into the metadata of one of the
\* chunks it got back: all_chunks[i].metadata["filename"] = ...
ChangeChunkMetadata(i) ==
    /\ cpc = "done"
    /\ md_changed = 0
    /\ i \in 1..Len(all_chunks)
    /\ md_heap' = [md_heap EXCEPT ![md_refs[i]].filename = OtherFileName]
    /\ md_changed' = i
    /\ UNCHANGED <<chunk_size, chunk_overlap, pages, page_idx, all_chunks,
                   tokens, start_idx, chunk_num, chunks, cpc, md_input,
                   md_refs>>
    /\ UNCHANGED <<bm25Vars, hybridVars, apiVars, moreVars>>

ChunkerNext ==
    \/ ChunkTextCall
    \/ ChunkLoopBody
    \/ ChunkTextReturn
    \/ ChunkDocumentsReturn
    \/ \E i \in 1..(MaxPages * ChunkCap) : ChangeChunkMetadata(i)

SpecChunker == ChunkerInit /\ [][ChunkerNext]_vars

\* chunk_documents is one synchronous call: once started, the interpreter
\* runs each of its steps as long as there is a next one.  What the caller
\* does with the chunks afterwards is up to the caller.
FairChunker ==
    /\ WF_vars(ChunkTextCall)
    /\ WF_vars(ChunkLoopBody)
    /\ WF_vars(ChunkTextReturn)
    /\ WF_vars(ChunkDocumentsReturn)

SpecChunkerFair == SpecChunker /\ FairChunker

-----------------------------------------------------------------------------
(* Claims about TextChunker *)

\* The preconditions the specification puts on the configuration, with the
\* overlap a token count (not negative).
ConfigValid == chunk_size > 0 /\ 0 <= chunk_overlap /\ chunk_overlap < chunk_size

\* chunk_text has returned for page p.
PageReturned(p) == p \in 1..Len(pages) /\ page_idx > p

\* The chunks chunk_text returned for page p, in order.
PageChunks(p) == SelectSeq(all_chunks, LAMBDA c : c.metadata.page_number = p)

\* C1: with chunk_overlap >= chunk_size or chunk_size <= 0 chunking fails with
\* a configuration error: no chunk is ever built (no loop iteration runs) and
\* no chunk is ever returned.
C1_InvalidConfigRejected ==
    (chunk_overlap >= chunk_size \/ chunk_size <= 0)
        => (chunks = <<>> /\ all_chunks = <<>>)

\* C2: a text with 0 < token count < chunk_size yields exactly one chunk, and
\* that chunk holds all tokens of the text, for every valid overlap.
C2_ShortTextOneChunk ==
    ConfigValid =>
        \A p \in 1..Len(pages) :
            (PageReturned(p) /\ Len(pages[p]) > 0 /\ Len(pages[p]) < chunk_size)
                => /\ Len(PageChunks(p)) = 1
                   /\ PageChunks(p)[1].text = pages[p]

\* C3: every returned chunk has token_count <= chunk_size, and all chunks of a
\* text except at most the last have token_count exactly chunk_size.
C3_ChunkSizeBound ==
    ConfigValid =>
        \A p \in 1..Len(pages) :
            PageReturned(p) =>
                LET cs == PageChunks(p) IN
                \A i \in 1..Len(cs) :
                    /\ cs[i].token_count <= chunk_size
                    /\ (i < Len(cs) => cs[i].token_count = chunk_size)

\* C4: the windows of the returned chunks, chunk number i laid at offset
\* i * (chunk_size - chunk_overlap), cover every token position of the text
\* with the token that stands there, and the last window ends at the end of
\* the text (the final partial window is emitted).
C4_ChunkCoverage ==
    ConfigValid =>
        \A p \in 1..Len(pages) :
            PageReturned(p) =>
                LET cs == PageChunks(p)
                    L  == Len(pages[p])
                    Off(i) == (i - 1) * Stride
                IN  /\ \A j \in 1..L :
                          \E i \in 1..Len(cs) :
                              /\ Off(i) < j
                              /\ j <= Off(i) + cs[i].token_count
                              /\ cs[i].text[j - Off(i)] = pages[p][j]
                    /\ L > 0 => /\ Len(cs) > 0
                                /\ Off(Len(cs)) + cs[Len(cs)].token_count = L

\* C4's case: a text longer than chunk_size whose chunks were returned, one of
\* them a window that is not full.
C4_Witness ==
    /\ ConfigValid
    /\ cpc = "done"
    /\ \E p \in 1..Len(pages) :
          /\ Len(pages[p]) > chunk_size
          /\ \E i \in 1..Len(PageChunks(p)) :
                PageChunks(p)[i].token_count < chunk_size

\* C5: the chunks chunk_documents produces for one document have pairwise
\* distinct chunk_id values.
C5_ChunkIdsUnique ==
    ConfigValid =>
        \A i, j \in 1..Len(all_chunks) :
            i # j => all_chunks[i].chunk_id # all_chunks[j].chunk_id

\* C23: chunk_text has no side effects.  No step changes chunk_size or
\* chunk_overlap; the mapping passed as metadata for a page keeps the items
\* it was passed with, also after the caller has changed the metadata of a
\* chunk; and every chunk other than the changed one keeps the metadata it
\* was built with, because each chunk holds a dict object of its own.
C23_ChunkTextNoSideEffects ==
    [][ /\ chunk_size' = chunk_size
        /\ chunk_overlap' = chunk_overlap
        /\ \A p \in 1..Len(md_input') :
              md_heap'[md_input'[p]] = PageMetadata(p)
        /\ \A i \in 1..Len(md_refs') :
              /\ \A p \in 1..Len(md_input') : md_refs'[i] # md_input'[p]
              /\ \A j \in 1..Len(md_refs') : i # j => md_refs'[i] # md_refs'[j]
              /\ (cpc' = "done" /\ i # md_changed')
                    => md_heap'[md_refs'[i]] = all_chunks'[i].metadata
      ]_vars

\* C23's case: a page gave two chunks, and the caller changed the metadata
\* of one of them.
C23_Witness ==
    /\ cpc = "done"
    /\ md_changed # 0
    /\ md_heap[md_refs[md_changed]].filename = OtherFileName
    /\ \E j \in 1..Len(all_chunks) :
          /\ j # md_changed
          /\ all_chunks[j].metadata.page_number
                = all_chunks[md_changed].metadata.page_number

\* ceil(a / b) for a >= 0 and b > 0.
CeilDiv(a, b) == (a + b - 1) \div b

\* C24: with chunk_size > 0 and 0 <= chunk_overlap < chunk_size, chunk_text
\* returns for every page (so chunk_documents comes to its end), and for a
\* page of L tokens it returns exactly ceil(L / stride) chunks, chunk number
\* i (from 0) starting at token i * stride; for L = 0 it returns no chunk.
C24_TerminatesWithCeilChunks ==
    /\ ConfigValid => <>(cpc = "done")
    /\ [](ConfigValid =>
            \A p \in 1..Len(pages) :
                PageReturned(p) =>
                    LET cs == PageChunks(p)
                        L  == Len(pages[p])
                        stride == chunk_size - chunk_overlap
                    IN  /\ Len(cs) = CeilDiv(L, stride)
                        /\ L = 0 => cs = <<>>
                        /\ \A i \in 1..Len(cs) :
                              /\ (i - 1) * stride < L
                              /\ cs[i].text[1] = pages[p][(i - 1) * stride + 1])

\* C24's case: chunk_documents came to its end on an empty page and on a
\* page whose length is not a multiple of the stride and that gave several
\* chunks.
C24_Witness ==
    /\ ConfigValid
    /\ cpc = "done"
    /\ \E p \in 1..Len(pages) : Len(pages[p]) = 0
    /\ \E p \in 1..Len(pages) :
          /\ Len(pages[p]) % (chunk_size - chunk_overlap) # 0
          /\ Len(PageChunks(p)) >= 2
          /\ chunk_overlap > 0

-----------------------------------------------------------------------------
(* BM25Retriever *)

\* A document handed to index_documents: {"text": ..., "metadata": ...}.  The
\* metadata is only stored and handed back; document number i of a call
\* carries the metadata [chunk |-> i], so that a result tells which document
\* of the corpus it was built from.
DocumentLists ==
    {[i \in 1..Len(ts) |-> [text |-> ts[i], metadata |-> [chunk |-> i]]] :
        ts \in SeqsUpTo(ChunkTexts, MaxDocs)}

\* index_documents(documents).  BM25Okapi divides by the corpus size, so an
\* empty corpus raises after self.corpus and self.metadata were reset and
\* before self.bm25 is assigned.
IndexDocuments(documents) ==
    /\ bpc = "idle"
    /\ corpus' = [i \in 1..Len(documents) |-> documents[i].text]
    /\ bm_metadata' = [i \in 1..Len(documents) |-> documents[i].metadata]
    /\ bm25' = IF Len(documents) = 0 THEN bm25
               ELSE [built |-> TRUE,
                     docs  |-> [i \in 1..Len(documents) |-> documents[i].text]]
    /\ bm_oracle' = IF Len(documents) = 0 THEN bm_oracle ELSE <<>>
    /\ bm_seen' = NotSeen
    /\ UNCHANGED <<bm_scores, bm_top_k, results, bpc>>
    /\ UNCHANGED <<chunkerVars, hybridVars, apiVars, moreVars>>

\* index_documents(documents) with a document that has no 'text' key, after
\* the documents `before`: doc["text"] raises KeyError in the loop, after
\* self.corpus and self.metadata were reset and got the documents before it;
\* self.bm25 is not reached.
IndexDocumentsKeyError(before) ==
    /\ bpc = "idle"
    /\ Len(before) < MaxDocs
    /\ corpus' = [i \in 1..Len(before) |-> before[i].text]
    /\ bm_metadata' = [i \in 1..Len(before) |-> before[i].metadata]
    /\ bm_seen' = NotSeen
    /\ UNCHANGED <<bm25, bm_oracle, bm_scores, bm_top_k, results, bpc>>
    /\ UNCHANGED <<chunkerVars, hybridVars, apiVars, moreVars>>

\* top_indices = sorted(range(len(scores)), key=lambda i: scores[i],
\*                      reverse=True)[:top_k], with ties reversed.
TopIndicesTiesReversed(scores, k) ==
    PyTake(SortDescTiesReversedUpTo(scores, Len(scores)), k)

\* top_indices = range(len(scores))[:top_k]: the first documents of the
\* corpus, whatever their scores.
TopIndicesInsertionOrder(scores, k) ==
    PyTake([i \in 1..Len(scores) |-> i], k)

\* top_indices = sorted(range(len(scores)), key=lambda i: scores[i],
\*                      reverse=True)[:top_k]       (indices 1-based here)
TopIndices(scores, k) == PyTake(PySortedDesc(scores), k)

\* if scores[idx] >= 0
ScorePassesOrZero(score) == score >= 0

\* if scores[idx] > 0
ScorePasses(score) == score > 0

\* The indices the result loop reaches: those before the first one that
\* passes `scores[idx] > 0` and lies outside self.corpus (an IndexError).
RECURSIVE ResultLoop(_, _, _)
ResultLoop(top_indices, scores, pos) ==
    IF pos > Len(top_indices) THEN [raised |-> FALSE, out |-> <<>>]
    ELSE LET idx == top_indices[pos] IN
         IF ScorePasses(scores[idx])
         THEN IF idx > Len(corpus) \/ idx > Len(bm_metadata)
              THEN [raised |-> TRUE, out |-> <<>>]
              ELSE LET rest == ResultLoop(top_indices, scores, pos + 1) IN
                   [raised |-> rest.raised,
                    out |-> <<[text     |-> corpus[idx],
                               metadata |-> bm_metadata[idx],
                               score    |-> scores[idx]]>> \o rest.out]
         ELSE ResultLoop(top_indices, scores, pos + 1)

\* retrieve(query, top_k) when self.bm25 is None.
RetrieveNoIndex(k) ==
    /\ bpc = "idle"
    /\ ~bm25.built
    /\ bm_top_k' = k
    /\ bm_scores' = <<>>
    /\ results' = <<>>
    /\ bpc' = "returned"
    /\ UNCHANGED <<corpus, bm_metadata, bm25, bm_oracle, bm_seen>>
    /\ UNCHANGED <<chunkerVars, hybridVars, apiVars, moreVars>>

\* A retrieve that takes the documents it returns out of self.corpus and
\* self.metadata.
RetrieveConsuming(k, scores) ==
    /\ bpc = "idle"
    /\ bm25.built
    /\ Len(scores) = Len(bm25.docs)
    /\ bm_oracle # <<>> => scores = bm_oracle
    /\ bm_oracle' = scores
    /\ bm_top_k' = k
    /\ bm_scores' = scores
    /\ LET r == ResultLoop(TopIndices(scores, k), scores, 1) IN
          IF r.raised
          THEN /\ results' = <<>>
               /\ bpc' = "raised"
               /\ UNCHANGED <<corpus, bm_metadata>>
          ELSE /\ results' = r.out
               /\ bpc' = "returned"
               /\ corpus' = PySlice(corpus, Len(r.out), Len(corpus))
               /\ bm_metadata' =
                     PySlice(bm_metadata, Len(r.out), Len(bm_metadata))
    /\ UNCHANGED <<bm25, bm_seen>>
    /\ UNCHANGED <<chunkerVars, hybridVars, apiVars, moreVars>>

\* retrieve(query, top_k) with an index.  get_scores is rank_bm25's: it gives
\* one score for each document the index was built from; which one depends on
\* the query, so every array of ScoreValues is tried.  It computes them from
\* the index and the query alone: the runs follow one query, and an index
\* that was asked before gives the same array again.
Retrieve(k, scores) ==
    /\ bpc = "idle"
    /\ bm25.built
    /\ Len(scores) = Len(bm25.docs)
    /\ bm_oracle # <<>> => scores = bm_oracle
    /\ bm_oracle' = scores
    /\ bm_top_k' = k
    /\ bm_scores' = scores
    /\ LET r == ResultLoop(TopIndices(scores, k), scores, 1) IN
          IF r.raised
          THEN /\ results' = <<>>
               /\ bpc' = "raised"
          ELSE /\ results' = r.out
               /\ bpc' = "returned"
    /\ UNCHANGED <<corpus, bm_metadata, bm25, bm_seen>>
    /\ UNCHANGED <<chunkerVars, hybridVars, apiVars, moreVars>>

\* The caller takes the result (or the exception); the retriever is as before.
BM25CallEnds ==
    /\ bpc \in {"returned", "raised"}
    /\ bpc' = "idle"
    /\ bm_scores' = <<>>
    /\ bm_top_k' = 0
    /\ results' = <<>>
    /\ bm_seen' = [k |-> bm_top_k, pc |-> bpc, out |-> results]
    /\ UNCHANGED <<corpus, bm_metadata, bm25, bm_oracle>>
    /\ UNCHANGED <<chunkerVars, hybridVars, apiVars, moreVars>>

BM25Init == ChunkerIdle /\ BM25New /\ HybridIdle /\ ApiIdle /\ MoreIdle

BM25Next ==
    \/ \E documents \in DocumentLists : IndexDocuments(documents)
    \/ \E k \in 1..MaxTopK : RetrieveNoIndex(k)
    \/ \E k \in 1..MaxTopK :
          \E scores \in (IF bm_oracle # <<>> THEN {bm_oracle}
                         ELSE [1..Len(bm25.docs) -> ScoreValues]) :
              Retrieve(k, scores)
    \/ BM25CallEnds

SpecBM25 == BM25Init /\ [][BM25Next]_vars

\* The runs in which index_documents may also be handed a document without
\* a 'text' key.  They are followed on shorter document lists and with
\* scores that only tell a match (1) from no match (0).
ShortDocumentLists == {documents \in DocumentLists : Len(documents) < MaxDocs}

MatchScores == {0, 1}

BM25RaisingNext ==
    \/ \E documents \in ShortDocumentLists : IndexDocuments(documents)
    \/ \E before \in ShortDocumentLists : IndexDocumentsKeyError(before)
    \/ \E k \in 1..MaxTopK : RetrieveNoIndex(k)
    \/ \E k \in 1..MaxTopK :
          \E scores \in (IF bm_oracle # <<>> THEN {bm_oracle}
                         ELSE [1..Len(bm25.docs) -> MatchScores]) :
              Retrieve(k, scores)
    \/ BM25CallEnds

SpecBM25Raising == BM25Init /\ [][BM25RaisingNext]_vars

(* Claims about BM25Retriever *)

\* C10: retrieve orders its results by descending score, and results of equal
\* score appear in the insertion order of the corpus (their documents' order).
C10_BM25OrderStable ==
    bpc = "returned" =>
        \A a, b \in 1..Len(results) :
            a < b =>
                /\ results[a].score >= results[b].score
                /\ results[a].score = results[b].score
                      => results[a].metadata.chunk < results[b].metadata.chunk

\* C10's case: retrieve returned three results, two of equal score, and a
\* later document of higher score was moved in front of them.
C10_Witness ==
    /\ bpc = "returned"
    /\ Len(results) = 3
    /\ results[1].score > results[2].score
    /\ results[2].score = results[3].score
    /\ results[1].metadata.chunk > results[2].metadata.chunk

\* The number of documents get_scores gave a positive score.
PositiveCount == Cardinality({i \in 1..Len(bm_scores) : bm_scores[i] > 0})

\* C11: retrieve never returns a document whose score is zero or negative
\* and never more than top_k documents; when fewer than top_k documents
\* score positively it returns just those, without padding.
C11_PositiveAtMostTopK ==
    bpc = "returned" =>
        /\ \A a \in 1..Len(results) : results[a].score > 0
        /\ Len(results) <= bm_top_k
        /\ Len(results) = Min(bm_top_k, PositiveCount)

\* C11's case: retrieve returned fewer than top_k results, at least one,
\* from a corpus of at least top_k documents.
C11_Witness ==
    /\ bpc = "returned"
    /\ Len(results) >= 1
    /\ Len(results) < bm_top_k
    /\ Len(corpus) >= bm_top_k
    /\ \E i \in 1..Len(bm_scores) : bm_scores[i] = 0

\* The documents of the corpus (by position) that are in the result.
ReturnedDocs == {results[a].metadata.chunk : a \in 1..Len(results)}

\* C12: retrieve selects the top_k highest-scoring documents: no document
\* left out of the result has a positive score higher than the score of a
\* document that is in the result.
C12_TopKHighest ==
    bpc = "returned" =>
        \A i \in 1..Len(bm_scores) :
            (i \notin ReturnedDocs /\ bm_scores[i] > 0) =>
                \A a \in 1..Len(results) : bm_scores[i] <= results[a].score

\* C12's case: retrieve returned top_k results and left out a document of
\* positive score that comes earlier in the corpus than one it returned.
C12_Witness ==
    /\ bpc = "returned"
    /\ Len(results) = bm_top_k
    /\ \E i \in 1..Len(bm_scores) :
          /\ i \notin ReturnedDocs
          /\ bm_scores[i] > 0
          /\ \E a \in 1..Len(results) : results[a].metadata.chunk > i

\* C13: a retrieve on a retriever that was never given documents, or that
\* was given an empty corpus, returns an empty list and raises nothing.
C13_EmptyCorpusReturnsEmpty ==
    (bpc \in {"returned", "raised"} /\ corpus = <<>>) =>
        /\ bpc = "returned"
        /\ results = <<>>

\* C14: retrieve leaves the corpus, the metadata list and the index as they
\* were, and a retrieve that follows another with the same top_k on the same
\* corpus ends the same way with the same documents, order and scores.
C14_RetrieveRepeatable ==
    [][(bpc = "idle" /\ bpc' # "idle") =>
          /\ UNCHANGED <<corpus, bm_metadata, bm25>>
          /\ bm_seen.k = bm_top_k' =>
                /\ bpc' = bm_seen.pc
                /\ results' = bm_seen.out]_vars

\* C14's case: a second retrieve with the same top_k returned the two
\* documents the first one returned.
C14_Witness ==
    /\ bpc = "returned"
    /\ bm_seen.k = bm_top_k
    /\ bm_seen.pc = "returned"
    /\ Len(results) = 2
    /\ results = bm_seen.out

\* The texts the BM25 model was built from, none without a model.
IndexedTexts == IF bm25.built THEN bm25.docs ELSE <<>>

\* C25: after any sequence of index_documents and retrieve calls, also ones
\* in which index_documents raised part-way, the corpus list, the metadata
\* list and the BM25 model describe the same documents in the same order;
\* retrieve never indexes outside the corpus (it does not raise), and every
\* result carries the text of the document its score was computed for.
C25_CorpusMatchesIndex ==
    /\ corpus = IndexedTexts
    /\ Len(bm_metadata) = Len(corpus)
    /\ bpc # "raised"
    /\ bpc = "returned" =>
          \A a \in 1..Len(results) :
              results[a].text = bm25.docs[results[a].metadata.chunk]

-----------------------------------------------------------------------------
(* HybridRetriever *)

\* Fused scores are sums of weight * (1.0 / (k + rank)) with weight in tenths.
\* They are kept exactly, as integers in units of 1 / (10 * RankDen), where
\* RankDen is a common multiple of every k + rank that occurs.  Rounding of
\* the floating-point operations is not modelled.
RECURSIVE RankProduct(_)
RankProduct(n) == IF n = 0 THEN 1 ELSE (K + n) * RankProduct(n - 1)

RankDen == RankProduct(MaxRank)

\* enumerate(results) without start=1: ranks counted from 0.
RrfScoreRankFromZero(weight, rank) == weight * (RankDen \div (K + rank - 1))

\* rrf_score = weight * (1.0 / (self.k + rank))
RrfScore(weight, rank) == weight * (RankDen \div (K + rank))

\* The position of text among the keys of the dicts (scores, texts and
\* metadata get the same keys in the same order), 0 when it is no key.
KeyIndex(acc, text) ==
    IF \E i \in 1..Len(acc) : acc[i].text = text
    THEN CHOOSE i \in 1..Len(acc) : acc[i].text = text
    ELSE 0

\* Body of the loop over vector_results: the score is added up, and
\* metadata[text] is assigned on every occurrence.
VectorStep(acc, rank, result) ==
    LET i   == KeyIndex(acc, result.text)
        rrf == RrfScore(vector_weight, rank)
    IN  IF i = 0
        THEN Append(acc, [text     |-> result.text,
                          score    |-> rrf,
                          metadata |-> result.metadata])
        ELSE [acc EXCEPT ![i] = [text     |-> result.text,
                                 score    |-> acc[i].score + rrf,
                                 metadata |-> result.metadata]]

\* A loop over bm25_results that never looks the text up: every result gets
\* an entry of its own.
BM25StepNoMerge(acc, rank, result) ==
    Append(acc, [text     |-> result.text,
                 score    |-> RrfScore(bm25_weight, rank),
                 metadata |-> result.metadata])

\* A loop over bm25_results that assigns scores[text] = rrf_score instead of
\* adding to it.
BM25StepOverwrite(acc, rank, result) ==
    LET i   == KeyIndex(acc, result.text)
        rrf == RrfScore(bm25_weight, rank)
    IN  IF i = 0
        THEN Append(acc, [text     |-> result.text,
                          score    |-> rrf,
                          metadata |-> result.metadata])
        ELSE [acc EXCEPT ![i].score = rrf]

\* Body of the loop over bm25_results: the score is added up, and the
\* metadata is assigned only `if text not in texts`.
BM25Step(acc, rank, result) ==
    LET i   == KeyIndex(acc, result.text)
        rrf == RrfScore(bm25_weight, rank)
    IN  IF i = 0
        THEN Append(acc, [text     |-> result.text,
                          score    |-> rrf,
                          metadata |-> result.metadata])
        ELSE [acc EXCEPT ![i].score = acc[i].score + rrf]

\* for rank, result in enumerate(vector_results, start=1)
RECURSIVE VectorLoop(_, _, _)
VectorLoop(acc, rs, rank) ==
    IF rank > Len(rs) THEN acc
    ELSE VectorLoop(VectorStep(acc, rank, rs[rank]), rs, rank + 1)

\* for rank, result in enumerate(bm25_results, start=1)
RECURSIVE BM25Loop(_, _, _)
BM25Loop(acc, rs, rank) ==
    IF rank > Len(rs) THEN acc
    ELSE BM25Loop(BM25Step(acc, rank, rs[rank]), rs, rank + 1)

\* A sort that puts the later key first among keys of equal score.
SortByScoreTiesReversed(acc) ==
    LET perm == SortDescTiesReversedUpTo(
                    [i \in 1..Len(acc) |-> acc[i].score], Len(acc))
    IN  [j \in 1..Len(acc) |-> acc[perm[j]]]

\* sorted_texts = sorted(scores.keys(), key=lambda t: scores[t], reverse=True)
\* and the fused_results built from it; the keys of a dict come in insertion
\* order.
SortByScore(acc) ==
    LET perm == PySortedDesc([i \in 1..Len(acc) |-> acc[i].score])
    IN  [j \in 1..Len(acc) |-> acc[perm[j]]]

\* _reciprocal_rank_fusion(vector_results, bm25_results)
ReciprocalRankFusion(vrs, brs) ==
    SortByScore(BM25Loop(VectorLoop(<<>>, vrs, 1), brs, 1))

\* retrieve_k = top_k * 3, without the cap.
RetrieveKNoCap(k) == k * 3

\* retrieve_k = min(top_k * 3, 20)
RetrieveK(k) == Min(k * 3, 20)

\* fused_results[:top_k + 1]
TruncateOneMore(fused, k) == PyTake(fused, k + 1)

\* final_results = fused_results[:top_k]
Truncate(fused, k) == PyTake(fused, k)

\* What a retriever may return when asked for n results: at most n results
\* (at most MaxRank here), texts possibly repeated (two chunks may hold the
\* same text).  The result at rank i of source src carries the metadata
\* [source |-> src, rank |-> i], so that a fused entry tells whose metadata it
\* kept.  The scores of the results are not read by the fusion.
ResultLists(src, n) ==
    {[i \in 1..Len(ts) |->
        [text |-> ts[i], metadata |-> [source |-> src, rank |-> i]]] :
        ts \in SeqsUpTo(Texts, Min(n, MaxRank))}

\* HybridRetriever.__init__ and the arguments of one retrieve call.  top_k
\* is validated by SearchRequest (ge=1, le=20).
HybridInit ==
    /\ ChunkerIdle
    /\ BM25New
    /\ ApiIdle
    /\ MoreIdle
    /\ \E w \in Weights : vector_weight = w[1] /\ bm25_weight = w[2]
    /\ top_k \in TopKs
    /\ vector_k = 0
    /\ bm25_k = 0
    /\ vector_results = <<>>
    /\ bm25_results = <<>>
    /\ fused_results = <<>>
    /\ final_results = <<>>
    /\ hpc = "start"

\* vector_results = self.vector_retriever.retrieve(query, top_k=retrieve_k)
HybridVectorRetrieve ==
    /\ hpc = "start"
    /\ vector_k' = RetrieveK(top_k)
    /\ vector_results' \in ResultLists("vector", RetrieveK(top_k))
    /\ hpc' = "vector"
    /\ UNCHANGED <<vector_weight, bm25_weight, top_k, bm25_k, bm25_results,
                   fused_results, final_results>>
    /\ UNCHANGED <<chunkerVars, bm25Vars, apiVars, moreVars>>

\* bm25_results = self.bm25_retriever.retrieve(query, top_k=retrieve_k)
HybridBM25Retrieve ==
    /\ hpc = "vector"
    /\ bm25_k' = RetrieveK(top_k)
    /\ bm25_results' \in ResultLists("bm25", RetrieveK(top_k))
    /\ hpc' = "bm25"
    /\ UNCHANGED <<vector_weight, bm25_weight, top_k, vector_k, vector_results,
                   fused_results, final_results>>
    /\ UNCHANGED <<chunkerVars, bm25Vars, apiVars, moreVars>>

\* fused_results = self._reciprocal_rank_fusion(vector_results, bm25_results)
HybridFuse ==
    /\ hpc = "bm25"
    /\ fused_results' = ReciprocalRankFusion(vector_results, bm25_results)
    /\ hpc' = "fused"
    /\ UNCHANGED <<vector_weight, bm25_weight, top_k, vector_k, bm25_k,
                   vector_results, bm25_results, final_results>>
    /\ UNCHANGED <<chunkerVars, bm25Vars, apiVars, moreVars>>

\* final_results = fused_results[:top_k]; return final_results
HybridReturn ==
    /\ hpc = "fused"
    /\ final_results' = Truncate(fused_results, top_k)
    /\ hpc' = "done"
    /\ UNCHANGED <<vector_weight, bm25_weight, top_k, vector_k, bm25_k,
                   vector_results, bm25_results, fused_results>>
    /\ UNCHANGED <<chunkerVars, bm25Vars, apiVars, moreVars>>

HybridNext ==
    \/ HybridVectorRetrieve
    \/ HybridBM25Retrieve
    \/ HybridFuse
    \/ HybridReturn

SpecHybrid == HybridInit /\ [][HybridNext]_vars

(* Claims about HybridRetriever *)

\* The ranks (1-based positions) at which text t occurs in the ranking rs.
RanksOf(rs, t) == {i \in 1..Len(rs) : rs[i].text = t}

\* The sum of weight / (k + r) over the ranks r of R, in the units of the
\* fused scores.
RECURSIVE SumOverRanks(_, _)
SumOverRanks(weight, R) ==
    IF R = {} THEN 0
    ELSE LET r == CHOOSE x \in R : TRUE
         IN  weight * (RankDen \div (K + r)) + SumOverRanks(weight, R \ {r})

\* The fusion has run.
Fused == hpc \in {"fused", "done"}

\* C6: the fused score of every returned item is
\* vector_weight/(k + rank_v) + bm25_weight/(k + rank_k), with rank_v and
\* rank_k the item's 1-based ranks in the two rankings and 0 for a ranking the
\* item is not in; an item that stands at several ranks of one ranking gets
\* the term of each of these ranks.
C6_FusedScoreFormula ==
    Fused =>
        \A n \in 1..Len(fused_results) :
            LET e  == fused_results[n]
                Rv == RanksOf(vector_results, e.text)
                Rk == RanksOf(bm25_results, e.text)
            IN  /\ e.score = SumOverRanks(vector_weight, Rv)
                             + SumOverRanks(bm25_weight, Rk)
                /\ (Cardinality(Rv) <= 1 /\ Cardinality(Rk) <= 1) =>
                      e.score =
                          (IF Rv = {} THEN 0
                           ELSE (vector_weight * RankDen)
                                    \div (K + (CHOOSE r \in Rv : TRUE)))
                        + (IF Rk = {} THEN 0
                           ELSE (bm25_weight * RankDen)
                                    \div (K + (CHOOSE r \in Rk : TRUE)))

\* C6's case: the fusion returned an item that has one rank in each ranking,
\* the two ranks different, and an item that only one ranking holds.
C6_Witness ==
    /\ Fused
    /\ \E n, m \in 1..Len(fused_results) :
          LET t == fused_results[n].text
              u == fused_results[m].text
          IN  /\ Cardinality(RanksOf(vector_results, t)) = 1
              /\ Cardinality(RanksOf(bm25_results, t)) = 1
              /\ RanksOf(vector_results, t) # RanksOf(bm25_results, t)
              /\ RanksOf(vector_results, u) = {}
              /\ RanksOf(bm25_results, u) # {}

\* The texts of a list of results.
TextsOf(rs) == {rs[i].text : i \in 1..Len(rs)}

\* C7: results are merged exactly when their texts are equal: the fused
\* output holds one entry for each distinct text of the two inputs and no
\* text twice, and the score of an entry whose text both sources hold is the
\* sum of the two sources' contributions.
C7_DedupByText ==
    Fused =>
        /\ TextsOf(fused_results) = TextsOf(vector_results) \cup TextsOf(bm25_results)
        /\ Len(fused_results)
              = Cardinality(TextsOf(vector_results) \cup TextsOf(bm25_results))
        /\ \A n \in 1..Len(fused_results) :
              LET t   == fused_results[n].text
                  cv  == SumOverRanks(vector_weight, RanksOf(vector_results, t))
                  ck  == SumOverRanks(bm25_weight, RanksOf(bm25_results, t))
              IN  (t \in TextsOf(vector_results) /\ t \in TextsOf(bm25_results))
                      => /\ fused_results[n].score = cv + ck
                         /\ fused_results[n].score > cv
                         /\ fused_results[n].score > ck

\* C7's case: a text that both sources returned, so that the fused list is
\* shorter than the two inputs together.
C7_Witness ==
    /\ Fused
    /\ TextsOf(vector_results) \cap TextsOf(bm25_results) # {}
    /\ Len(fused_results) >= 2
    /\ Len(fused_results) < Len(vector_results) + Len(bm25_results)

\* The first result with text t in processing order: the vector results in
\* rank order, then the keyword results.
FirstSeen(t) ==
    IF RanksOf(vector_results, t) # {}
    THEN vector_results[CHOOSE i \in RanksOf(vector_results, t) :
                           \A j \in RanksOf(vector_results, t) : i <= j]
    ELSE bm25_results[CHOOSE i \in RanksOf(bm25_results, t) :
                         \A j \in RanksOf(bm25_results, t) : i <= j]

\* C8: the metadata of each fused entry is the metadata of the first-seen
\* occurrence of its text (vector results in rank order, then keyword
\* results), also when a text repeats within a ranking.
C8_FirstSeenMetadata ==
    Fused =>
        \A n \in 1..Len(fused_results) :
            fused_results[n].metadata = FirstSeen(fused_results[n].text).metadata

\* C9: retrieve returns at most top_k results, in descending order of fused
\* score.
C9_TopKSortedDescending ==
    hpc = "done" =>
        /\ Len(final_results) <= top_k
        /\ \A a, b \in 1..Len(final_results) :
              a < b => final_results[a].score >= final_results[b].score

\* C9's case: the fusion gave more than top_k entries, retrieve cut them to
\* top_k >= 2 entries of different score, and the best entry is not the one
\* the fusion saw first.
C9_Witness ==
    /\ hpc = "done"
    /\ Len(fused_results) > top_k
    /\ Len(final_results) = top_k
    /\ top_k >= 2
    /\ final_results[1].score > final_results[2].score
    /\ Len(vector_results) > 0
    /\ final_results[1].text # vector_results[1].text


-----------------------------------------------------------------------------
(* The vector store (src/src/storage) and the routes that use it            *)
(* (src/src/api/routes).  search.py and documents.py take their store from  *)
(* src.storage.vector_store.get_vector_store, a ChromaVectorStore; the      *)
(* get() that _initialize_retrievers calls on it is defined by              *)
(* ZillizVectorStore only ("ChromaDB-compatible API").  Both wrappers are   *)
(* followed: backend says which one the routes hold.                        *)

\* The handlers are `async def` and contain no await: the event loop runs one
\* of them to its end before it starts another.
LoopFree == running = "none"

\* One chunk as the collection keeps it: ids = f"{doc_id}_{i}", the text, and
\* metadata["document_id"] = doc_id.
StoredChunk(d, i, text) ==
    [id |-> <<d, i>>, document_id |-> d, text |-> text]

\* The ids of the chunks whose document_id is d.
IdsOf(st, d) == {st[i].id : i \in {j \in 1..Len(st) : st[j].document_id = d}}

RECURSIVE Without(_, _)
\* The collection without the chunks of the given ids.
Without(st, ids) ==
    IF st = <<>> THEN <<>>
    ELSE IF Head(st).id \in ids THEN Without(Tail(st), ids)
         ELSE <<Head(st)>> \o Without(Tail(st), ids)

\* A delete that removes one of the given chunks only.
DeleteIdsOneOnly(st, ids) ==
    IF ids = {} THEN st
    ELSE Without(st, {CHOOSE x \in ids : TRUE})

\* self.collection.delete(ids=...) / self.client.delete(filter=...): one call
\* that removes every chunk named.
DeleteIds(st, ids) == Without(st, ids)

\* A result of a retriever: {"text": ..., "metadata": ...}; scores of the
\* single retrievers are not modelled.
AsResult(chunk) ==
    [text |-> chunk.text,
     metadata |-> [document_id |-> chunk.document_id, id |-> chunk.id]]

Reverse(q) == [i \in 1..Len(q) |-> q[Len(q) + 1 - i]]

\* The chunks of st as results, ranked in the given order.
Ranked(st, order) ==
    LET rs == [i \in 1..Len(st) |-> AsResult(st[i])]
    IN  IF order = "forward" THEN rs ELSE Reverse(rs)

\* An add_documents that calls the store first and compares the lengths
\* afterwards.
AddDocumentsInsertFirst(d, texts, n_emb) ==
    /\ LoopFree
    /\ ingested[d] = 0
    /\ d \notin deleted
    /\ Len(store) + Len(texts) <= MaxDocs
    /\ running' = "add"
    /\ a_ext_calls' = 1
    /\ store' = store \o [i \in 1..Len(texts) |-> StoredChunk(d, i, texts[i])]
    /\ ingested' = [ingested EXCEPT ![d] = Len(texts)]
    /\ a_pc' = IF Len(texts) # n_emb THEN "rejected" ELSE "returned"
    /\ UNCHANGED <<backend, deleted, deleteVars, searchVars>>
    /\ UNCHANGED <<chunkerVars, bm25Vars, hybridVars, moreVars>>

\* add_documents(chunks, embeddings) of either wrapper, for a new document_id
\* d, chunks of the given texts and n_emb embeddings.
AddDocuments(d, texts, n_emb) ==
    /\ LoopFree
    /\ ingested[d] = 0
    /\ d \notin deleted
    /\ Len(store) + Len(texts) <= MaxDocs
    /\ running' = "add"
    /\ IF Len(texts) # n_emb
       THEN /\ a_pc' = "rejected"
            /\ a_ext_calls' = 0
            /\ UNCHANGED <<store, ingested>>
       ELSE /\ a_pc' = "returned"
            /\ a_ext_calls' = 1
            /\ store' = store \o
                   [i \in 1..Len(texts) |-> StoredChunk(d, i, texts[i])]
            /\ ingested' = [ingested EXCEPT ![d] = Len(texts)]
    /\ UNCHANGED <<backend, deleted, deleteVars, searchVars>>
    /\ UNCHANGED <<chunkerVars, bm25Vars, hybridVars, moreVars>>

\* The caller of add_documents has the document_id or the ValueError.
AddEnds ==
    /\ running = "add"
    /\ running' = "none"
    /\ a_pc' = "idle"
    /\ a_ext_calls' = 0
    /\ UNCHANGED <<backend, store, ingested, deleted, deleteVars, searchVars>>
    /\ UNCHANGED <<chunkerVars, bm25Vars, hybridVars, moreVars>>

\* DELETE /documents/{document_id}: the route is entered.
DeleteStart(d) ==
    /\ LoopFree
    /\ running' = "delete"
    /\ d_pc' = "start"
    /\ d_doc' = d
    /\ d_ids' = {}
    /\ d_count' = 0
    /\ d_status' = 0
    /\ UNCHANGED <<backend, store, ingested, deleted, addVars, searchVars>>
    /\ UNCHANGED <<chunkerVars, bm25Vars, hybridVars, moreVars>>

\* ChromaVectorStore.delete_document:
\* results = self.collection.get(where={"document_id": document_id})
ChromaDeleteGet ==
    /\ running = "delete"
    /\ d_pc = "start"
    /\ backend = "chroma"
    /\ d_ids' = IdsOf(store, d_doc)
    /\ d_pc' = IF IdsOf(store, d_doc) = {} THEN "return" ELSE "delete"
    /\ UNCHANGED <<d_doc, d_count, d_status>>
    /\ UNCHANGED <<storeVars, addVars, searchVars>>
    /\ UNCHANGED <<chunkerVars, bm25Vars, hybridVars, moreVars>>

\* ChromaVectorStore.delete_document:
\* self.collection.delete(ids=results["ids"]); return len(results["ids"])
ChromaDeleteIds ==
    /\ running = "delete"
    /\ d_pc = "delete"
    /\ store' = DeleteIds(store, d_ids)
    /\ d_count' = Cardinality(d_ids)
    /\ d_pc' = "return"
    /\ UNCHANGED <<d_doc, d_ids, d_status>>
    /\ UNCHANGED <<backend, ingested, deleted, running, addVars, searchVars>>
    /\ UNCHANGED <<chunkerVars, bm25Vars, hybridVars, moreVars>>

\* ZillizVectorStore.delete_document: one client.delete by filter.
ZillizDelete ==
    /\ running = "delete"
    /\ d_pc = "start"
    /\ backend = "zilliz"
    /\ store' = DeleteIds(store, IdsOf(store, d_doc))
    /\ d_count' = Cardinality(IdsOf(store, d_doc))
    /\ d_pc' = "return"
    /\ UNCHANGED <<d_doc, d_ids, d_status>>
    /\ UNCHANGED <<backend, ingested, deleted, running, addVars, searchVars>>
    /\ UNCHANGED <<chunkerVars, bm25Vars, hybridVars, moreVars>>

\* delete_document has returned; the route answers 404 when nothing was
\* deleted.
DeleteReturn ==
    /\ running = "delete"
    /\ d_pc = "return"
    /\ d_status' = IF d_count = 0 THEN 404 ELSE 200
    /\ deleted' = deleted \cup {d_doc}
    /\ d_pc' = "responded"
    /\ UNCHANGED <<d_doc, d_ids, d_count>>
    /\ UNCHANGED <<backend, store, ingested, running, addVars, searchVars>>
    /\ UNCHANGED <<chunkerVars, bm25Vars, hybridVars, moreVars>>

\* The response of the delete route is sent; the handler is over.
DeleteEnds ==
    /\ running = "delete"
    /\ d_pc = "responded"
    /\ running' = "none"
    /\ d_pc' = "idle"
    /\ d_doc' = "none"
    /\ d_ids' = {}
    /\ d_count' = 0
    /\ d_status' = 0
    /\ UNCHANGED <<backend, store, ingested, deleted, addVars, searchVars>>
    /\ UNCHANGED <<chunkerVars, bm25Vars, hybridVars, moreVars>>


\* The steps in the order the spec lists them: the query is embedded and the
\* vector search made before the keyword index is built.
PlanEmbedFirst(search_type, has_documents) ==
    LET build == IF has_documents THEN <<"build">> ELSE <<>>
    IN  CASE search_type = "vector" -> build \o <<"embed", "vector">>
          [] search_type = "bm25"   -> build \o <<"keyword">>
          [] OTHER -> <<"embed", "vector">> \o build \o <<"keyword", "fuse">>

\* The steps of one search request after all_results was read, in the order
\* the code runs them: _initialize_retrievers indexes the corpus (when there
\* is one) before search_documents dispatches on search_type; a vector
\* retrieve embeds the query and then searches the store; the hybrid
\* retrieve calls the vector retriever, then the BM25 retriever, then fuses.
Plan(search_type, has_documents) ==
    LET build == IF has_documents THEN <<"build">> ELSE <<>>
    IN  CASE search_type = "vector" -> build \o <<"embed", "vector">>
          [] search_type = "bm25"   -> build \o <<"keyword">>
          [] OTHER -> build \o <<"embed", "vector", "keyword", "fuse">>

\* The top_k the retrievers are called with.
CallK == IF s_type = "hybrid" THEN RetrieveK(s_top_k) ELSE s_top_k

\* POST /search: the route is entered with a validated SearchRequest.
SearchStart(search_type, k) ==
    /\ LoopFree
    /\ running' = "search"
    /\ s_pc' = "init"
    /\ s_type' = search_type
    /\ s_top_k' = k
    /\ s_corpus' = <<>>
    /\ s_index' = <<>>
    /\ s_todo' = <<>>
    /\ s_done' = <<>>
    /\ s_fail' = "none"
    /\ s_vector' = <<>>
    /\ s_bm25' = <<>>
    /\ s_results' = <<>>
    /\ s_status' = 0
    /\ UNCHANGED <<backend, store, ingested, deleted, addVars, deleteVars>>
    /\ UNCHANGED <<chunkerVars, bm25Vars, hybridVars, moreVars>>

\* _initialize_retrievers up to `if all_results["documents"]`:
\* all_results = vector_store.get().  ChromaVectorStore has no attribute get:
\* the call raises AttributeError.  ZillizVectorStore.get returns the texts
\* and metadata of the collection.
SearchGetCorpus ==
    /\ running = "search"
    /\ s_pc = "init"
    /\ IF backend = "chroma"
       THEN /\ s_pc' = "failed"
            /\ UNCHANGED <<s_corpus, s_todo>>
       ELSE /\ s_pc' = "steps"
            /\ s_corpus' = Ranked(store, "forward")
            /\ s_todo' = Plan(s_type, store # <<>>)
    /\ UNCHANGED <<s_type, s_top_k, s_index, s_done, s_fail, s_vector,
                   s_bm25, s_results, s_status>>
    /\ UNCHANGED <<storeVars, addVars, deleteVars>>
    /\ UNCHANGED <<chunkerVars, bm25Vars, hybridVars, moreVars>>

\* bm25_retriever.index_documents(documents)
SearchBuildIndex ==
    /\ running = "search"
    /\ s_pc = "steps"
    /\ s_todo # <<>>
    /\ Head(s_todo) = "build"
    /\ s_index' = s_corpus
    /\ s_todo' = Tail(s_todo)
    /\ s_done' = Append(s_done, "build")
    /\ UNCHANGED <<s_pc, s_type, s_top_k, s_corpus, s_fail, s_vector,
                   s_bm25, s_results, s_status>>
    /\ UNCHANGED <<storeVars, addVars, deleteVars>>
    /\ UNCHANGED <<chunkerVars, bm25Vars, hybridVars, moreVars>>

\* A hybrid retrieve that catches the failure of the embedding call and goes
\* on with the keyword source alone.
SearchEmbedDegrades(ok) ==
    /\ running = "search"
    /\ s_pc = "steps"
    /\ s_todo # <<>>
    /\ Head(s_todo) = "embed"
    /\ s_done' = Append(s_done, "embed")
    /\ IF ok
       THEN /\ s_todo' = Tail(s_todo)
            /\ UNCHANGED <<s_pc, s_fail>>
       ELSE /\ s_fail' = "embed"
            /\ IF s_type = "hybrid"
               THEN /\ s_todo' = Tail(Tail(s_todo))
                    /\ UNCHANGED s_pc
               ELSE /\ s_pc' = "failed"
                    /\ UNCHANGED s_todo
    /\ UNCHANGED <<s_type, s_top_k, s_corpus, s_index, s_vector, s_bm25,
                   s_results, s_status>>
    /\ UNCHANGED <<storeVars, addVars, deleteVars>>
    /\ UNCHANGED <<chunkerVars, bm25Vars, hybridVars, moreVars>>

\* VectorRetriever.retrieve: query_embedding = self.embedder.embed_text(query).
\* The call to the embedding provider succeeds or raises; nothing between it
\* and the route's `except Exception` catches.
SearchEmbed(ok) ==
    /\ running = "search"
    /\ s_pc = "steps"
    /\ s_todo # <<>>
    /\ Head(s_todo) = "embed"
    /\ s_done' = Append(s_done, "embed")
    /\ IF ok
       THEN /\ s_todo' = Tail(s_todo)
            /\ UNCHANGED <<s_pc, s_fail>>
       ELSE /\ s_fail' = "embed"
            /\ s_pc' = "failed"
            /\ UNCHANGED s_todo
    /\ UNCHANGED <<s_type, s_top_k, s_corpus, s_index, s_vector, s_bm25,
                   s_results, s_status>>
    /\ UNCHANGED <<storeVars, addVars, deleteVars>>
    /\ UNCHANGED <<chunkerVars, bm25Vars, hybridVars, moreVars>>

\* VectorRetriever.retrieve: results = self.vector_store.search(...).  The
\* store answers with its nearest chunks, at most top_k of them (which ones
\* is the similarity search's matter: both Orders are tried), or the call
\* raises.
SearchVector(ok, order) ==
    /\ running = "search"
    /\ s_pc = "steps"
    /\ s_todo # <<>>
    /\ Head(s_todo) = "vector"
    /\ s_done' = Append(s_done, "vector")
    /\ IF ok
       THEN /\ s_vector' = PyTake(Ranked(store, order), Min(CallK, MaxRank))
            /\ s_todo' = Tail(s_todo)
            /\ UNCHANGED <<s_pc, s_fail>>
       ELSE /\ s_fail' = "vector"
            /\ s_pc' = "failed"
            /\ UNCHANGED <<s_todo, s_vector>>
    /\ UNCHANGED <<s_type, s_top_k, s_corpus, s_index, s_bm25, s_results,
                   s_status>>
    /\ UNCHANGED <<storeVars, addVars, deleteVars>>
    /\ UNCHANGED <<chunkerVars, bm25Vars, hybridVars, moreVars>>

\* bm25_retriever.retrieve(query, top_k): [] without an index; otherwise the
\* documents of positive score among the top_k of the index, best first: the
\* first m of a ranking of the indexed documents.
SearchKeyword(order, m) ==
    /\ running = "search"
    /\ s_pc = "steps"
    /\ s_todo # <<>>
    /\ Head(s_todo) = "keyword"
    /\ m <= Min(CallK, MaxRank)
    /\ m <= Len(s_index)
    /\ s_done' = Append(s_done, "keyword")
    /\ s_bm25' = PyTake(IF order = "forward" THEN s_index
                        ELSE Reverse(s_index), m)
    /\ s_todo' = Tail(s_todo)
    /\ UNCHANGED <<s_pc, s_type, s_top_k, s_corpus, s_index, s_fail,
                   s_vector, s_results, s_status>>
    /\ UNCHANGED <<storeVars, addVars, deleteVars>>
    /\ UNCHANGED <<chunkerVars, bm25Vars, hybridVars, moreVars>>

\* The fused results without their scores.
WithoutScores(fused) ==
    [i \in 1..Len(fused) |->
        [text |-> fused[i].text, metadata |-> fused[i].metadata]]

\* HybridRetriever.retrieve: fused_results = self._reciprocal_rank_fusion(
\* vector_results, bm25_results); final_results = fused_results[:top_k]
SearchFuse ==
    /\ running = "search"
    /\ s_pc = "steps"
    /\ s_todo # <<>>
    /\ Head(s_todo) = "fuse"
    /\ s_done' = Append(s_done, "fuse")
    /\ s_results' = WithoutScores(
           Truncate(ReciprocalRankFusion(s_vector, s_bm25), s_top_k))
    /\ s_todo' = Tail(s_todo)
    /\ UNCHANGED <<s_pc, s_type, s_top_k, s_corpus, s_index, s_fail,
                   s_vector, s_bm25, s_status>>
    /\ UNCHANGED <<storeVars, addVars, deleteVars>>
    /\ UNCHANGED <<chunkerVars, bm25Vars, hybridVars, moreVars>>

\* search_documents: the results are formatted and returned (200).
SearchRespond ==
    /\ running = "search"
    /\ s_pc = "steps"
    /\ s_todo = <<>>
    /\ s_results' = CASE s_type = "vector" -> s_vector
                      [] s_type = "bm25"   -> s_bm25
                      [] OTHER             -> s_results
    /\ s_status' = 200
    /\ s_pc' = "responded"
    /\ UNCHANGED <<s_type, s_top_k, s_corpus, s_index, s_todo, s_done,
                   s_fail, s_vector, s_bm25>>
    /\ UNCHANGED <<storeVars, addVars, deleteVars>>
    /\ UNCHANGED <<chunkerVars, bm25Vars, hybridVars, moreVars>>

\* search_documents: except Exception -> HTTPException(status_code=500).
SearchFails ==
    /\ running = "search"
    /\ s_pc = "failed"
    /\ s_results' = <<>>
    /\ s_status' = 500
    /\ s_pc' = "responded"
    /\ UNCHANGED <<s_type, s_top_k, s_corpus, s_index, s_todo, s_done,
                   s_fail, s_vector, s_bm25>>
    /\ UNCHANGED <<storeVars, addVars, deleteVars>>
    /\ UNCHANGED <<chunkerVars, bm25Vars, hybridVars, moreVars>>

\* The response of the search route is sent; the handler and the retrievers
\* it built are over.
SearchEnds ==
    /\ running = "search"
    /\ s_pc = "responded"
    /\ running' = "none"
    /\ s_pc' = "idle"
    /\ s_type' = "none"
    /\ s_top_k' = 0
    /\ s_corpus' = <<>>
    /\ s_index' = <<>>
    /\ s_todo' = <<>>
    /\ s_done' = <<>>
    /\ s_fail' = "none"
    /\ s_vector' = <<>>
    /\ s_bm25' = <<>>
    /\ s_results' = <<>>
    /\ s_status' = 0
    /\ UNCHANGED <<backend, store, ingested, deleted, addVars, deleteVars>>
    /\ UNCHANGED <<chunkerVars, bm25Vars, hybridVars, moreVars>>

ApiInit ==
    /\ ChunkerIdle
    /\ BM25New
    /\ HybridIdle
    /\ backend \in Backends
    /\ store = <<>>
    /\ ingested = [d \in DocIds |-> 0]
    /\ deleted = {}
    /\ HandlersIdle
    /\ MoreIdle

ApiNext ==
    \/ \E d \in DocIds : \E texts \in SeqsUpTo(ChunkTexts, MaxDocs) :
          \E n_emb \in {Len(texts), Len(texts) + 1} :
             Len(texts) >= 1 /\ AddDocuments(d, texts, n_emb)
    \/ AddEnds
    \/ \E d \in DocIds : DeleteStart(d)
    \/ ChromaDeleteGet
    \/ ChromaDeleteIds
    \/ ZillizDelete
    \/ DeleteReturn
    \/ DeleteEnds
    \/ \E search_type \in SearchTypes : \E k \in 1..MaxTopK :
          SearchStart(search_type, k)
    \/ SearchGetCorpus
    \/ SearchBuildIndex
    \/ \E ok \in BOOLEAN : SearchEmbed(ok)
    \/ \E ok \in BOOLEAN : \E order \in Orders : SearchVector(ok, order)
    \/ \E order \in Orders : \E m \in 0..MaxRank : SearchKeyword(order, m)
    \/ SearchFuse
    \/ SearchRespond
    \/ SearchFails
    \/ SearchEnds

SpecApi == ApiInit /\ [][ApiNext]_vars


(* More claims about HybridRetriever *)

\* C21: retrieve asks the vector source and the keyword source each for
\* min(top_k * 3, 20) candidates, and fuses and truncates to top_k only after
\* both were asked.
C21_BreadthThenFuse ==
    LET breadth == IF top_k * 3 < 20 THEN top_k * 3 ELSE 20 IN
    /\ hpc \in {"vector", "bm25", "fused", "done"} =>
          /\ vector_k = breadth
          /\ Len(vector_results) <= breadth
    /\ hpc \in {"bm25", "fused", "done"} =>
          /\ bm25_k = breadth
          /\ Len(bm25_results) <= breadth
    /\ hpc \in {"start", "vector"} =>
          /\ bm25_k = 0
          /\ fused_results = <<>>
          /\ final_results = <<>>
    /\ hpc = "start" => vector_k = 0
    /\ hpc = "bm25" => (fused_results = <<>> /\ final_results = <<>>)
    /\ hpc = "fused" => final_results = <<>>
    /\ hpc = "done" =>
          /\ Len(final_results) <= top_k
          /\ final_results = PyTake(fused_results, top_k)

\* C21's case: a request with top_k * 3 above 20 returned, both sources
\* having been asked for 20 candidates.
C21_Witness ==
    /\ hpc = "done"
    /\ top_k * 3 > 20
    /\ vector_k = 20
    /\ bm25_k = 20
    /\ final_results # <<>>

\* The fusion with its two loops exchanged: the keyword ranking is processed
\* before the vector ranking, each with its own weight.
KeywordFirstFusion(vrs, brs) ==
    SortByScore(VectorLoop(BM25Loop(<<>>, brs, 1), vrs, 1))

\* The (text, score) pairs of a fused ranking.
ScoredTexts(fused) == {<<fused[i].text, fused[i].score>> : i \in 1..Len(fused)}

\* C22: processing the keyword ranking before the vector ranking gives the
\* same fused texts with the same fused scores, and the same score at every
\* position of the ranking: the two rankings differ among entries of equal
\* score only.
C22_FusionCommutes ==
    Fused =>
        LET kf == KeywordFirstFusion(vector_results, bm25_results) IN
        /\ ScoredTexts(kf) = ScoredTexts(fused_results)
        /\ Len(kf) = Len(fused_results)
        /\ \A i \in 1..Len(fused_results) : kf[i].score = fused_results[i].score

\* C22's case: a text is in both rankings, and the exchanged fusion orders
\* the texts differently (two entries of equal score change places).
C22_Witness ==
    /\ Fused
    /\ \E t \in Texts :
          RanksOf(vector_results, t) # {} /\ RanksOf(bm25_results, t) # {}
    /\ LET kf == KeywordFirstFusion(vector_results, bm25_results) IN
          \E i \in 1..Len(fused_results) : kf[i].text # fused_results[i].text

\* The position at which text t is first seen by the fusion: its first rank
\* in the vector ranking, or, for a keyword-only text, its first rank in the
\* keyword ranking counted after the vector ranking.
FirstSeenPos(t) ==
    IF RanksOf(vector_results, t) # {}
    THEN CHOOSE i \in RanksOf(vector_results, t) :
            \A j \in RanksOf(vector_results, t) : i <= j
    ELSE Len(vector_results) +
         (CHOOSE i \in RanksOf(bm25_results, t) :
             \A j \in RanksOf(bm25_results, t) : i <= j)

\* C28: entries of the fused ranking that have equal fused score appear in
\* first-seen order: vector results in their rank order, then keyword-only
\* results in their rank order.
C28_TiesInFirstSeenOrder ==
    Fused =>
        \A a, b \in 1..Len(fused_results) :
            (a < b /\ fused_results[a].score = fused_results[b].score) =>
                FirstSeenPos(fused_results[a].text)
                    < FirstSeenPos(fused_results[b].text)

\* C28's case: a vector-only entry and a keyword-only entry have the same
\* fused score, and an entry of higher score that was seen after both comes
\* before them.
C28_Witness ==
    /\ Fused
    /\ Len(fused_results) = 3
    /\ fused_results[1].score > fused_results[2].score
    /\ fused_results[2].score = fused_results[3].score
    /\ RanksOf(bm25_results, fused_results[2].text) = {}
    /\ RanksOf(vector_results, fused_results[3].text) = {}
    /\ FirstSeenPos(fused_results[1].text) > FirstSeenPos(fused_results[2].text)

(* Claims about the search and delete routes and the store *)

\* The place of a step in the order the spec gives: embed, vector search,
\* build the keyword index, keyword search, fuse.
SpecOrder(step) ==
    CASE step = "embed"   -> 1
      [] step = "vector"  -> 2
      [] step = "build"   -> 3
      [] step = "keyword" -> 4
      [] OTHER            -> 5

\* The place of a step in the order: build the keyword index, embed, vector
\* search, keyword search, fuse.
BuildFirstOrder(step) ==
    CASE step = "build"   -> 1
      [] step = "embed"   -> 2
      [] step = "vector"  -> 3
      [] step = "keyword" -> 4
      [] OTHER            -> 5

C17_UpstreamFailureFailsRequest ==
    s_fail # "none" =>
        /\ s_pc \in {"failed", "responded"}
        /\ s_done[Len(s_done)] = s_fail
        /\ s_pc = "responded" => (s_status = 500 /\ s_results = <<>>)

\* C17's case: a hybrid request whose keyword index was built over a
\* non-empty corpus was answered after its vector search failed.
C17_Witness ==
    /\ s_type = "hybrid"
    /\ s_pc = "responded"
    /\ s_fail = "vector"
    /\ s_index # <<>>
    /\ s_status = 500

\* The number of results of rs that belong to document d.
ChunksOf(rs, d) ==
    Cardinality({i \in 1..Len(rs) : rs[i].metadata.document_id = d})

C19_DeleteCascades ==
    (s_pc = "responded" /\ deleted # {} /\ store # <<>>) =>
        /\ \A i \in 1..Len(s_results) :
              s_results[i].metadata.document_id \notin deleted
        /\ s_fail = "none" =>
              /\ s_status = 200
              /\ s_type # "vector" => s_index = Ranked(store, "forward")

\* C20: an add_documents call with a number of chunks different from the
\* number of embeddings is rejected (ValueError) without any call to the
\* external store, and the store's contents stay as they were.
C20_MismatchRejectedBeforeStore ==
    [][(a_pc = "idle" /\ a_pc' = "rejected") =>
          /\ a_ext_calls' = 0
          /\ store' = store]_vars

\* C20's case: add_documents rejected a call on a store that holds chunks.
C20_Witness ==
    /\ a_pc = "rejected"
    /\ store # <<>>


-----------------------------------------------------------------------------
(* The upload route *)

\* The suffixes Path(file.filename).suffix is tried with.
Suffixes == {".pdf", ".PDF", ".docx", ".txt", ".exe", ""}

\* str.lower() on the suffixes above.
Lower(suffix) == IF suffix = ".PDF" THEN ".pdf" ELSE suffix

\* allowed_extensions = {".pdf", ".docx", ".txt"}
AllowedExtensions == {".pdf", ".docx", ".txt"}

\* The status of the response when the body of upload_document raises.  The
\* only handler is `except Exception`, and HTTPException is an Exception:
\* whatever was raised, also the HTTPException(status_code=400) of the
\* validation, is answered with HTTPException(status_code=500).
ExceptStatus(raised_status) == 500

\* The handler starts on a request whose file has the given suffix.
UploadStart(suffix) ==
    /\ u_pc = "idle"
    /\ u_pc' = "validate"
    /\ u_suffix' = suffix
    /\ u_calls' = <<>>
    /\ u_status' = 0
    /\ UNCHANGED u_files
    /\ UNCHANGED <<coreVars, convVars, syncVars>>

\* if file_extension not in allowed_extensions: raise HTTPException(400)
UploadValidate ==
    /\ u_pc = "validate"
    /\ IF Lower(u_suffix) \notin AllowedExtensions
       THEN /\ u_status' = ExceptStatus(400)
            /\ u_pc' = "responded"
       ELSE /\ u_pc' = "save"
            /\ UNCHANGED u_status
    /\ UNCHANGED <<u_suffix, u_files, u_calls>>
    /\ UNCHANGED <<coreVars, convVars, syncVars>>

\* with open(file_path, "wb") as f: shutil.copyfileobj(file.file, f)
UploadSave ==
    /\ u_pc = "save"
    /\ u_files' = u_files \cup {u_suffix}
    /\ u_pc' = "load"
    /\ UNCHANGED <<u_suffix, u_calls, u_status>>
    /\ UNCHANGED <<coreVars, convVars, syncVars>>

\* The call after which the handler is at position pc.
UploadCallOf(pc) ==
    CASE pc = "load"  -> "loader"
      [] pc = "chunk" -> "chunker"
      [] pc = "embed" -> "embedder"
      [] pc = "add"   -> "store"

\* The position after the call made at position pc.
UploadAfter(pc) ==
    CASE pc = "load"  -> "chunk"
      [] pc = "chunk" -> "embed"
      [] pc = "embed" -> "add"
      [] pc = "add"   -> "responded"

\* DocumentLoader.load, smart_chunk_documents, embedder.embed_texts and
\* vector_store.add_documents, one after the other; each may raise (ok is
\* FALSE), and the last one is followed by the response.
UploadCall(ok) ==
    /\ u_pc \in {"load", "chunk", "embed", "add"}
    /\ u_calls' = Append(u_calls, UploadCallOf(u_pc))
    /\ IF ok
       THEN /\ u_pc' = UploadAfter(u_pc)
            /\ u_status' = IF u_pc = "add" THEN 200 ELSE u_status
       ELSE /\ u_pc' = "responded"
            /\ u_status' = ExceptStatus(0)
    /\ UNCHANGED <<u_suffix, u_files>>
    /\ UNCHANGED <<coreVars, convVars, syncVars>>

\* The response was sent; the route waits for the next request.
UploadEnds ==
    /\ u_pc = "responded"
    /\ u_pc' = "idle"
    /\ UNCHANGED <<u_suffix, u_files, u_calls, u_status>>
    /\ UNCHANGED <<coreVars, convVars, syncVars>>

UploadInit == ChunkerIdle /\ BM25New /\ HybridIdle /\ ApiIdle /\ MoreIdle

\* The other components before any call.
CoreIdle == ChunkerIdle /\ BM25New /\ HybridIdle /\ ApiIdle

UploadNext ==
    \/ \E suffix \in Suffixes : UploadStart(suffix)
    \/ UploadValidate
    \/ UploadSave
    \/ \E ok \in BOOLEAN : UploadCall(ok)
    \/ UploadEnds

SpecUpload == UploadInit /\ [][UploadNext]_vars

(* Claims about the upload route *)

\* C26: an upload whose file extension is not .pdf, .docx or .txt is answered
\* with HTTP status 400; nothing is saved to disk and no loader, chunker,
\* embedder or vector-store call is made for it.
C26_BadExtensionRejected ==
    (u_pc = "responded" /\ Lower(u_suffix) \notin AllowedExtensions) =>
        /\ u_status = 400
        /\ u_suffix \notin u_files
        /\ u_calls = <<>>

-----------------------------------------------------------------------------
(* ConversationStorage *)

MaxMessages == 3    \* most add_message calls of a run
MaxLimit    == 2    \* largest limit of get_recent_messages

\* The conversation ids (uuid4 strings in the source).
ConvIds == {"c1", "c2"}

\* The limits get_recent_messages is called with.
Limits == 0..MaxLimit

\* create_conversation: a conversation under a new uuid4.
CreateConversation(cid) ==
    /\ vpc = "idle"
    /\ cid \notin conv_ever
    /\ conversations' = conversations \cup {cid}
    /\ conv_ever' = conv_ever \cup {cid}
    /\ UNCHANGED <<foreign_keys, messages, msg_ever, now, recent_args, recent,
                   vpc>>
    /\ UNCHANGED <<coreVars, uploadVars, syncVars>>

\* delete_conversation(cid): both DELETE statements, committed together.
DeleteConversation(cid) ==
    /\ vpc = "idle"
    /\ messages' = SelectSeq(messages, LAMBDA m : m.conversation_id # cid)
    /\ conversations' = conversations \ {cid}
    /\ UNCHANGED <<foreign_keys, conv_ever, msg_ever, now, recent_args, recent,
                   vpc>>
    /\ UNCHANGED <<coreVars, uploadVars, syncVars>>

\* Whether the INSERT of a message of conversation cid goes through: with
\* foreign keys enforced the conversation has to exist; without, any id does.
InsertAllowed(cid) == foreign_keys => cid \in conversations

\* add_message(cid, ...): the row is stamped with datetime.utcnow(), which is
\* the stamp of the previous row or a later one.  A rejected INSERT raises
\* IntegrityError; nothing is committed.
AddMessage(cid, later) ==
    /\ vpc = "idle"
    /\ msg_ever < MaxMessages
    /\ msg_ever' = msg_ever + 1
    /\ now' = IF later THEN now + 1 ELSE now
    /\ IF InsertAllowed(cid)
       THEN messages' = Append(messages,
                               [id              |-> msg_ever + 1,
                                conversation_id |-> cid,
                                created_at      |-> now'])
       ELSE UNCHANGED messages
    /\ UNCHANGED <<foreign_keys, conversations, conv_ever, recent_args,
                   recent, vpc>>
    /\ UNCHANGED <<coreVars, uploadVars, syncVars>>

\* (conversation_id, limit * 2): the LIMIT of the inner SELECT.
SqlLimit(limit) == limit * 2

\* The positions of the rows of conversation cid.
RowsOf(cid) == {i \in 1..Len(messages) : messages[i].conversation_id = cid}

\* SELECT ... WHERE conversation_id = ? ORDER BY created_at DESC LIMIT n: the
\* n latest rows; which of the rows of equal created_at are taken is left
\* to SQLite.
LatestRows(cid, n) ==
    {S \in SUBSET RowsOf(cid) :
        /\ Cardinality(S) = Min(n, Cardinality(RowsOf(cid)))
        /\ \A i \in S : \A j \in RowsOf(cid) \ S :
              messages[j].created_at <= messages[i].created_at}

\* SELECT * FROM (...) ORDER BY created_at ASC: the rows of S, oldest first,
\* rows of equal created_at in an order left to SQLite.
OldestFirst(S) ==
    {r \in [1..Cardinality(S) -> S] :
        /\ \A a, b \in 1..Cardinality(S) : a # b => r[a] # r[b]
        /\ \A a, b \in 1..Cardinality(S) :
              a < b => messages[r[a]].created_at <= messages[r[b]].created_at}

\* get_recent_messages(cid, limit)
GetRecentMessages(cid, limit) ==
    /\ vpc = "idle"
    /\ \E S \in LatestRows(cid, SqlLimit(limit)) :
          \E r \in OldestFirst(S) :
              recent' = [a \in 1..Cardinality(S) |-> messages[r[a]]]
    /\ recent_args' = [cid |-> cid, limit |-> limit]
    /\ vpc' = "returned"
    /\ UNCHANGED <<foreign_keys, conversations, conv_ever, messages, msg_ever,
                   now>>
    /\ UNCHANGED <<coreVars, uploadVars, syncVars>>

\* The caller has the list.
ConvCallEnds ==
    /\ vpc = "returned"
    /\ vpc' = "idle"
    /\ recent' = <<>>
    /\ recent_args' = NoRecentCall
    /\ UNCHANGED <<foreign_keys, conversations, conv_ever, messages, msg_ever,
                   now>>
    /\ UNCHANGED <<coreVars, uploadVars, syncVars>>

\* sqlite3.connect leaves PRAGMA foreign_keys at the default of the SQLite
\* library: off, unless the library was built with
\* SQLITE_DEFAULT_FOREIGN_KEYS=1.  Both builds are followed.
ConvInit ==
    /\ CoreIdle
    /\ UploadIdle
    /\ SyncIdle
    /\ foreign_keys \in BOOLEAN
    /\ conversations = {}
    /\ conv_ever = {}
    /\ messages = <<>>
    /\ msg_ever = 0
    /\ now = 0
    /\ recent_args = NoRecentCall
    /\ recent = <<>>
    /\ vpc = "idle"

ConvNext ==
    \/ \E cid \in ConvIds : CreateConversation(cid)
    \/ \E cid \in ConvIds : DeleteConversation(cid)
    \/ \E cid \in ConvIds : \E later \in BOOLEAN : AddMessage(cid, later)
    \/ \E cid \in ConvIds : \E limit \in Limits : GetRecentMessages(cid, limit)
    \/ ConvCallEnds

SpecConv == ConvInit /\ [][ConvNext]_vars

(* Claims about ConversationStorage *)

\* C27: get_recent_messages(conversation_id, limit) returns at most limit
\* messages, all of that conversation, none older than a message of the
\* conversation it left out, ordered oldest first.
C27_RecentAtMostLimit ==
    vpc = "returned" =>
        /\ Len(recent) <= recent_args.limit
        /\ \A a \in 1..Len(recent) :
              /\ recent[a].conversation_id = recent_args.cid
              /\ \A j \in RowsOf(recent_args.cid) :
                    (\A b \in 1..Len(recent) : recent[b] # messages[j])
                        => messages[j].created_at <= recent[a].created_at
        /\ \A a, b \in 1..Len(recent) :
              a < b => recent[a].created_at <= recent[b].created_at

\* C30: the conversation_id of every stored message is the id of an existing
\* conversation: add_message with an unknown or deleted conversation id
\* stores nothing, and delete_conversation leaves no message of the deleted
\* conversation behind.
C30_MessagesHaveConversation ==
    \A i \in 1..Len(messages) : messages[i].conversation_id \in conversations

-----------------------------------------------------------------------------
(* sync_zilliz_from_supabase *)

MaxChunks == 2      \* most chunks one document is cut into
MaxStored == 5      \* most entities the collection holds in a run

\* limit=10000 of the query of count_document_chunks
QueryLimit == 10000

\* What a collection does with an insert of a primary id it holds already.
\* Milvus keeps both entities; a service that replaces the old entity or
\* rejects the insert is followed as well.
PkModes == {"duplicate", "replace", "reject"}

\* One entity of add_documents: "id": f"{doc_id}_{i}", "document_id": doc_id
ZillizEntity(d, i) == [id |-> <<d, i>>, document_id |-> d]

\* entities of add_documents(chunks, embeddings, document_id=d) for n chunks:
\* enumerate counts from 0.
Entities(d, n) == [i \in 1..n |-> ZillizEntity(d, i - 1)]

\* count_document_chunks(d): len(query(filter=document_id == d, limit=10000))
CountDocumentChunks(st, d) ==
    Min(Cardinality({i \in 1..Len(st) : st[i].document_id = d}), QueryLimit)

\* Whether the collection holds one of the primary ids of the entities.
Clash(st, entities) ==
    \E i \in 1..Len(st) : \E j \in 1..Len(entities) : st[i].id = entities[j].id

\* if existing_count == expected_count and expected_count > 0: skip
NeedsSync(existing_count, expected_count) ==
    ~(existing_count = expected_count /\ expected_count > 0)

\* self.client.insert(collection_name, data=entities), by pk_mode.
Insert(st, entities) ==
    IF pk_mode = "replace"
    THEN SelectSeq(st, LAMBDA e :
                 \A j \in 1..Len(entities) : e.id # entities[j].id) \o entities
    ELSE st \o entities

\* sync_zilliz_from_supabase(document_id): the documents are fetched and the
\* counters set to zero.  document_id "all" stands for None.
SyncStart(document_id) ==
    /\ ypc = "idle"
    /\ sync_documents' = IF document_id = "all" THEN <<"d1", "d2">>
                    ELSE <<document_id>>
    /\ doc_idx' = 1
    /\ synced' = 0
    /\ failed' = 0
    /\ skipped' = 0
    /\ synced_docs' = <<>>
    /\ ypc' = "loop"
    /\ UNCHANGED <<pk_mode, supabase, z_store>>
    /\ UNCHANGED <<coreVars, uploadVars, convVars>>

\* One iteration of the loop over documents: n is the number of chunks the
\* document is cut into now, ok is FALSE when the download, the loader, the
\* chunker or the embedder raises.
SyncDocument(n, ok) ==
    /\ ypc = "loop"
    /\ doc_idx <= Len(sync_documents)
    /\ Len(z_store) + n <= MaxStored
    /\ LET doc            == sync_documents[doc_idx]
           existing_count == CountDocumentChunks(z_store, doc)
           expected_count == supabase[doc].chunk_count
           entities       == Entities(doc, n)
       IN  IF ~NeedsSync(existing_count, expected_count)
              \/ ~supabase[doc].file_path
           THEN /\ skipped' = skipped + 1
                /\ UNCHANGED <<z_store, synced, failed, synced_docs>>
           ELSE IF ~ok \/ (pk_mode = "reject" /\ Clash(z_store, entities))
           THEN /\ failed' = failed + 1
                /\ UNCHANGED <<z_store, synced, skipped, synced_docs>>
           ELSE /\ z_store' = Insert(z_store, entities)
                /\ synced' = synced + 1
                /\ synced_docs' =
                      Append(synced_docs, [id |-> doc, produced |-> n])
                /\ UNCHANGED <<failed, skipped>>
    /\ doc_idx' = doc_idx + 1
    /\ UNCHANGED <<pk_mode, supabase, sync_documents, ypc>>
    /\ UNCHANGED <<coreVars, uploadVars, convVars>>

\* return result
SyncReturn ==
    /\ ypc = "loop"
    /\ doc_idx > Len(sync_documents)
    /\ ypc' = "idle"
    /\ UNCHANGED <<pk_mode, supabase, z_store, sync_documents, doc_idx,
                   synced, failed, skipped, synced_docs>>
    /\ UNCHANGED <<coreVars, uploadVars, convVars>>

\* The collection is empty; Supabase lists every document with the
\* chunk_count it was uploaded with (0 when the column was never set).
SyncInit ==
    /\ CoreIdle
    /\ UploadIdle
    /\ ConvIdle
    /\ pk_mode \in PkModes
    /\ supabase \in [DocIds -> [chunk_count : 0..MaxChunks,
                                file_path   : BOOLEAN]]
    /\ z_store = <<>>
    /\ sync_documents = <<>>
    /\ doc_idx = 1
    /\ synced = 0
    /\ failed = 0
    /\ skipped = 0
    /\ synced_docs = <<>>
    /\ ypc = "idle"

SyncNext ==
    \/ \E document_id \in DocIds \cup {"all"} : SyncStart(document_id)
    \/ \E n \in 1..MaxChunks : \E ok \in BOOLEAN : SyncDocument(n, ok)
    \/ SyncReturn

SpecSync == SyncInit /\ [][SyncNext]_vars

(* Claims about sync_zilliz_from_supabase *)

\* C29: after the sync has counted a document as synced, the number of
\* entities stored under its document id equals the number of chunks just
\* produced for it, and no primary id is stored twice; also when another
\* non-zero number of chunks was stored for it before.
C29_SyncedCountMatches ==
    /\ \A k \in 1..Len(synced_docs) :
          CountDocumentChunks(z_store, synced_docs[k].id)
              = synced_docs[k].produced
    /\ \A i, j \in 1..Len(z_store) : i # j => z_store[i].id # z_store[j].id

====
